---- MODULE Spec2Model ----
(***************************************************************************)
(* Model of poll_pending (crates/pathfinder/src/state/sync/pending.rs):    *)
(* the loop that polls the sequencer's pending block and pending state     *)
(* update, checks both against the caller's head, resolves the classes of  *)
(* the state diff and publishes SyncEvent::Pending on a bounded channel.   *)
(*                                                                         *)
(* One cycle is one iteration of the `loop`.  Each action is one arm of    *)
(* the code between two suspension points (.await).  The gateway, the      *)
(* clock and the receiver of the channel are the environment.              *)
(***************************************************************************)
EXTENDS Integers, Sequences, FiniteSets, TLC

(***************************************************************************)
(* Bounds of the model.                                                    *)
(***************************************************************************)
MaxHash == 1
MaxClass == 1
MaxCycles == 2
ChannelCapacity == 1

(***************************************************************************)
(* std::time::Duration::from_secs(3 * 60): the timeout of the pending      *)
(* state update query.  One tick of the clock is one minute.               *)
(***************************************************************************)
StateUpdateTimeout == 3

Hashes == 0..MaxHash
Classes == 1..MaxClass

(***************************************************************************)
(* Two state commitments, two timestamps (those of the fixtures NEXT_BLOCK *)
(* and PENDING_BLOCK) and two poll intervals (Duration::ZERO and one tick) *)
(* are told apart.                                                         *)
(***************************************************************************)
Roots == {0, 1}
Timestamps == {10, 20}
PollIntervals == {0, 1}

(***************************************************************************)
(* Values of the gateway types, with the fields poll_pending reads and     *)
(* enough of the others to tell two replies apart.  A state diff is the    *)
(* set of class hashes it refers to; poll_pending never looks into the     *)
(* state diff of a full state update.                                      *)
(***************************************************************************)
StateDiffs == SUBSET Classes

Block ==
    [kind : {"Block"}, block_hash : Hashes, parent_block_hash : Hashes]

PendingBlock ==
    [kind : {"Pending"}, parent_hash : Hashes, timestamp : Timestamps]

StateUpdate ==
    [kind : {"StateUpdate"}, block_hash : Hashes, new_root : Roots,
     old_root : Roots]

PendingStateUpdate ==
    [kind : {"Pending"}, old_root : Roots, state_diff : StateDiffs]

MaybePendingBlock == Block \cup PendingBlock

MaybePendingStateUpdate == StateUpdate \cup PendingStateUpdate

NoReply == [kind |-> "NoReply"]

GatewayError == [kind |-> "Err"]

Elapsed == [kind |-> "Elapsed"]

(***************************************************************************)
(* Option and anyhow::Result of the return value.                          *)
(***************************************************************************)
None == [kind |-> "None"]

Some(x) == [kind |-> "Some", value |-> x]

Running == [tag |-> "Running"]

Ok(b, s) == [tag |-> "Ok", block |-> b, state_update |-> s]

Err(ctx) == [tag |-> "Err", context |-> ctx]

SyncEventPending(b, u) == [kind |-> "Pending", block |-> b, state_update |-> u]

VARIABLES
    head,           \* the caller's (BlockHash, StateCommitment)
    poll_interval,  \* the caller's poll interval, in ticks
    pc,             \* the suspension point poll_pending is at
    cycle,          \* number of the current iteration of the loop
    block_reply,    \* what sequencer.block(Pending) resolved to in this cycle
    update_reply,   \* what the timed state_update(Pending) resolved to
    revised,        \* the gateway replaced its pending block between the two
    prev_sent,      \* the events sent in the cycle before this one
    pending_data,   \* get_block_with_txs: context.pending_data
    input,          \* get_block_with_txs: input.block_id
    rpc_pc,         \* get_block_with_txs: where the call is
    header,         \* get_block_with_txs: what block_header(block_id) gave
    reply,          \* get_block_with_txs: the value returned
    db_reads,       \* get_block_with_txs: accesses made to the storage
    block,          \* the local `block` (line 34)
    state_update,   \* the local `state_update` (line 79)
    to_download,    \* classes download_new_classes has still to resolve
    storage,        \* class hashes the storage holds
    fetches,        \* number of class fetches made on the gateway
    chan,           \* tx_event: the events buffered in the channel
    rx_open,        \* the receiver of the channel has not been dropped
    sent_count,     \* number of events poll_pending sent on tx_event so far
    sent_in_cycle,  \* the events poll_pending sent in this cycle, in order
    result,         \* the return value of poll_pending
    timer           \* ticks left until the armed timer (timeout or sleep) fires

vars == <<head, poll_interval, pc, cycle, block_reply, update_reply, block,
          state_update, to_download, storage, fetches, chan, rx_open,
          sent_count, sent_in_cycle, result, timer, revised, prev_sent,
          pending_data, input, rpc_pc, header, reply, db_reads>>

rpc_vars == <<pending_data, input, rpc_pc, header, reply, db_reads>>

poller_vars == <<head, poll_interval, pc, cycle, block_reply, update_reply,
                 block, state_update, to_download, storage, fetches, chan,
                 rx_open, sent_count, sent_in_cycle, result, timer, revised,
                 prev_sent>>

(***************************************************************************)
(* get_block_with_txs (rpc v04).  BlockId: Pending, Latest, Number(n) or   *)
(* Hash(h).                                                                *)
(***************************************************************************)
MaxNumber == 1

BlockNumbers == 0..MaxNumber

BlockId ==
    {[kind |-> "Pending"], [kind |-> "Latest"]}
        \cup [kind : {"Number"}, number : BlockNumbers]
        \cup [kind : {"Hash"}, hash : Hashes]

(***************************************************************************)
(* pathfinder_common::BlockHeader, the fields from_parts reads.            *)
(***************************************************************************)
BlockHeader ==
    [hash : Hashes, parent_hash : Hashes, number : BlockNumbers,
     state_commitment : Roots, timestamp : Timestamps]

(***************************************************************************)
(* context.pending_data: None when the node runs without pending support,  *)
(* else Some(data), whose data.block() is None or Some(pending block).     *)
(***************************************************************************)
PendingData ==
    {None, Some(None)} \cup {Some(Some(p)) : p \in PendingBlock}

BlockStatus == {"PENDING", "ACCEPTED_ON_L2", "ACCEPTED_ON_L1"}

(***************************************************************************)
(* Result<types::Block, GetBlockError>                                     *)
(***************************************************************************)
RpcOk(b) == [tag |-> "Ok", block |-> b, error |-> "", context |-> ""]

BlockNotFound ==
    [tag |-> "Err", block |-> None, error |-> "BlockNotFound", context |-> ""]

Internal(ctx) ==
    [tag |-> "Err", block |-> None, error |-> "Internal", context |-> ctx]

NotRead == [kind |-> "NotRead"]

ReadError == [kind |-> "ReadError"]

(***************************************************************************)
(* No call of get_block_with_txs is in progress.                           *)
(***************************************************************************)
NoRpcCall ==
    /\ pending_data = None
    /\ input = [kind |-> "Pending"]
    /\ rpc_pc = "idle"
    /\ header = NotRead
    /\ reply = Running
    /\ db_reads = 0

Init ==
    /\ NoRpcCall
    /\ head \in Hashes \X Roots
    /\ poll_interval \in PollIntervals
    /\ pc = "block_query"
    /\ cycle = 1
    /\ block_reply = NoReply
    /\ update_reply = NoReply
    /\ block = None
    /\ state_update = None
    /\ to_download = {}
    /\ storage \in SUBSET Classes
    /\ fetches = 0
    /\ chan = <<>>
    /\ rx_open = TRUE
    /\ sent_count = 0
    /\ sent_in_cycle = <<>>
    /\ result = Running
    /\ timer = 0
    /\ revised = FALSE
    /\ prev_sent = <<>>

(***************************************************************************)
(* `return`: poll_pending is over, with value r.                           *)
(***************************************************************************)
Return(r) ==
    /\ pc' = "done"
    /\ result' = r
    /\ timer' = 0

(***************************************************************************)
(* tokio::time::sleep(poll_interval): arms the timer and suspends at p.    *)
(***************************************************************************)
Sleep(p) ==
    /\ pc' = p
    /\ timer' = poll_interval
    /\ UNCHANGED result

(***************************************************************************)
(* The guards of the match on the pending block (lines 39 and 49).         *)
(***************************************************************************)
IsCurrentHead_ByParent(b, h) == b.parent_block_hash = h[1]

IsCurrentHead(b, h) == b.block_hash = h[1]

ParentMismatch_Skipped(p, h) == FALSE

ParentMismatch(p, h) == p.parent_hash # h[1]

(***************************************************************************)
(* sequencer.block(BlockId::Pending) fails: `?` returns the error.         *)
(***************************************************************************)
BlockQueryFailed_Retries ==
    /\ pc = "block_query"
    /\ block_reply' = GatewayError
    /\ UNCHANGED <<rpc_vars, prev_sent, revised, head, poll_interval, pc, cycle, update_reply, block,
                   state_update, to_download, storage, fetches, chan,
                   rx_open, sent_count, sent_in_cycle, result, timer>>

BlockQueryFailed ==
    /\ pc = "block_query"
    /\ block_reply' = GatewayError
    /\ Return(Err("Download pending block"))
    /\ UNCHANGED <<rpc_vars, prev_sent, revised, head, poll_interval, cycle, update_reply, block,
                   state_update, to_download, storage, fetches, chan,
                   rx_open, sent_count, sent_in_cycle>>

(***************************************************************************)
(* MaybePendingBlock::Block(block) if block.block_hash == head.0           *)
(***************************************************************************)
FoundCurrentHead_Exits(b) ==
    /\ pc = "block_query"
    /\ b \in Block
    /\ IsCurrentHead(b, head)
    /\ block_reply' = b
    /\ Return(Ok(Some(b), None))
    /\ UNCHANGED <<rpc_vars, prev_sent, revised, head, poll_interval, cycle, update_reply, block,
                   state_update, to_download, storage, fetches, chan,
                   rx_open, sent_count, sent_in_cycle>>

FoundCurrentHead_ChecksSink(b) ==
    /\ pc = "block_query"
    /\ b \in Block
    /\ IsCurrentHead(b, head)
    /\ block_reply' = b
    /\ IF rx_open
       THEN Sleep("sleep_head")
       ELSE Return(Err("Event channel closed"))
    /\ UNCHANGED <<rpc_vars, prev_sent, revised, head, poll_interval, cycle,
                   update_reply, block, state_update, to_download, storage,
                   fetches, chan, rx_open, sent_count, sent_in_cycle>>

FoundCurrentHead(b) ==
    /\ pc = "block_query"
    /\ b \in Block
    /\ IsCurrentHead(b, head)
    /\ block_reply' = b
    /\ Sleep("sleep_head")
    /\ UNCHANGED <<rpc_vars, prev_sent, revised, head, poll_interval, cycle, update_reply, block,
                   state_update, to_download, storage, fetches, chan,
                   rx_open, sent_count, sent_in_cycle>>

(***************************************************************************)
(* MaybePendingBlock::Block(block): any other full block is returned.      *)
(***************************************************************************)
FoundFullBlock_DropsBlock(b) ==
    /\ pc = "block_query"
    /\ b \in Block
    /\ ~IsCurrentHead(b, head)
    /\ block_reply' = b
    /\ Return(Ok(None, None))
    /\ UNCHANGED <<rpc_vars, prev_sent, revised, head, poll_interval, cycle, update_reply, block,
                   state_update, to_download, storage, fetches, chan,
                   rx_open, sent_count, sent_in_cycle>>

FoundFullBlock_ChecksParent(b) ==
    /\ pc = "block_query"
    /\ b \in Block
    /\ ~IsCurrentHead(b, head)
    /\ block_reply' = b
    /\ IF b.parent_block_hash = head[1]
       THEN Return(Ok(Some(b), None))
       ELSE Return(Ok(None, None))
    /\ UNCHANGED <<rpc_vars, prev_sent, revised, head, poll_interval, cycle,
                   update_reply, block, state_update, to_download, storage,
                   fetches, chan, rx_open, sent_count, sent_in_cycle>>

FoundFullBlock(b) ==
    /\ pc = "block_query"
    /\ b \in Block
    /\ ~IsCurrentHead(b, head)
    /\ block_reply' = b
    /\ Return(Ok(Some(b), None))
    /\ UNCHANGED <<rpc_vars, prev_sent, revised, head, poll_interval, cycle, update_reply, block,
                   state_update, to_download, storage, fetches, chan,
                   rx_open, sent_count, sent_in_cycle>>

(***************************************************************************)
(* MaybePendingBlock::Pending(pending) if pending.parent_hash != head.0    *)
(***************************************************************************)
PendingBlockDisconnected_StillQueries(p) ==
    /\ pc = "block_query"
    /\ p \in PendingBlock
    /\ ParentMismatch(p, head)
    /\ block_reply' = p
    /\ block' = Some(p)
    /\ pc' = "state_update_query"
    /\ timer' = StateUpdateTimeout
    /\ UNCHANGED <<rpc_vars, prev_sent, revised, head, poll_interval, cycle,
                   update_reply, state_update, to_download, storage, fetches,
                   chan, rx_open, sent_count, sent_in_cycle, result>>

PendingBlockDisconnected(p) ==
    /\ pc = "block_query"
    /\ p \in PendingBlock
    /\ ParentMismatch(p, head)
    /\ block_reply' = p
    /\ Return(Ok(None, None))
    /\ UNCHANGED <<rpc_vars, prev_sent, revised, head, poll_interval, cycle, update_reply, block,
                   state_update, to_download, storage, fetches, chan,
                   rx_open, sent_count, sent_in_cycle>>

(***************************************************************************)
(* MaybePendingBlock::Pending(pending) => pending; the state update query  *)
(* is issued under tokio::time::timeout, which arms the timer.             *)
(***************************************************************************)
PendingBlockConnected_SharedTimer(p) ==
    /\ pc = "block_query"
    /\ p \in PendingBlock
    /\ ~ParentMismatch(p, head)
    /\ block_reply' = p
    /\ block' = Some(p)
    /\ pc' = "state_update_query"
    /\ timer' = StateUpdateTimeout - (cycle - 1)
    /\ UNCHANGED <<rpc_vars, prev_sent, revised, head, poll_interval, cycle,
                   update_reply, state_update, to_download, storage, fetches,
                   chan, rx_open, sent_count, sent_in_cycle, result>>

PendingBlockConnected(p) ==
    /\ pc = "block_query"
    /\ p \in PendingBlock
    /\ ~ParentMismatch(p, head)
    /\ block_reply' = p
    /\ block' = Some(p)
    /\ pc' = "state_update_query"
    /\ timer' = StateUpdateTimeout
    /\ UNCHANGED <<rpc_vars, prev_sent, revised, head, poll_interval, cycle, update_reply, state_update,
                   to_download, storage, fetches, chan, rx_open, sent_count,
                   sent_in_cycle, result>>

(***************************************************************************)
(* The guard of the check of the pending state update (line 85).           *)
(***************************************************************************)
OldRootMismatch_Skipped(u, h) == FALSE

OldRootMismatch(u, h) == u.old_root # h[2]

(***************************************************************************)
(* download_new_classes (super::l2): the classes the state diff refers to  *)
(* that the storage does not hold yet are the ones to fetch and persist.   *)
(***************************************************************************)
NewClasses_All(diff, store) == diff

NewClasses(diff, store) == diff \ store

(***************************************************************************)
(* Err(_timeout): the timer of tokio::time::timeout fired before the       *)
(* query resolved.  A reply that is ready when the timer fires is taken as *)
(* a reply (timeout polls the query first): it is a reply before the       *)
(* deadline here.                                                          *)
(***************************************************************************)
StateUpdateTimedOut_Fails ==
    /\ pc = "state_update_query"
    /\ timer = 0
    /\ update_reply' = Elapsed
    /\ Return(Err("Downloading pending state update"))
    /\ UNCHANGED <<rpc_vars, prev_sent, revised, head, poll_interval, cycle, block_reply, block,
                   state_update, to_download, storage, fetches, chan,
                   rx_open, sent_count, sent_in_cycle>>

StateUpdateTimedOut ==
    /\ pc = "state_update_query"
    /\ timer = 0
    /\ update_reply' = Elapsed
    /\ Return(Ok(None, None))
    /\ UNCHANGED <<rpc_vars, prev_sent, revised, head, poll_interval, cycle, block_reply, block,
                   state_update, to_download, storage, fetches, chan,
                   rx_open, sent_count, sent_in_cycle>>

(***************************************************************************)
(* Ok(gateway_result) with gateway_result an error: `?` returns it.        *)
(***************************************************************************)
StateUpdateQueryFailed_Swallowed ==
    /\ pc = "state_update_query"
    /\ timer > 0
    /\ update_reply' = GatewayError
    /\ Return(Ok(None, None))
    /\ UNCHANGED <<rpc_vars, prev_sent, revised, head, poll_interval, cycle, block_reply, block,
                   state_update, to_download, storage, fetches, chan,
                   rx_open, sent_count, sent_in_cycle>>

StateUpdateQueryFailed_SameContext ==
    /\ pc = "state_update_query"
    /\ timer > 0
    /\ update_reply' = GatewayError
    /\ Return(Err("Download pending block"))
    /\ UNCHANGED <<rpc_vars, prev_sent, revised, head, poll_interval, cycle,
                   block_reply, block, state_update, to_download, storage,
                   fetches, chan, rx_open, sent_count, sent_in_cycle>>

StateUpdateQueryFailed ==
    /\ pc = "state_update_query"
    /\ timer > 0
    /\ update_reply' = GatewayError
    /\ Return(Err("Downloading pending state update"))
    /\ UNCHANGED <<rpc_vars, prev_sent, revised, head, poll_interval, cycle, block_reply, block,
                   state_update, to_download, storage, fetches, chan,
                   rx_open, sent_count, sent_in_cycle>>

(***************************************************************************)
(* MaybePendingStateUpdate::StateUpdate(state_update)                      *)
(***************************************************************************)
FoundFullStateUpdate_ChecksRoot(s) ==
    /\ pc = "state_update_query"
    /\ timer > 0
    /\ s \in StateUpdate
    /\ update_reply' = s
    /\ Return(IF s.old_root = head[2] THEN Ok(None, Some(s))
                                      ELSE Ok(None, None))
    /\ UNCHANGED <<rpc_vars, prev_sent, revised, head, poll_interval, cycle, block_reply, block,
                   state_update, to_download, storage, fetches, chan,
                   rx_open, sent_count, sent_in_cycle>>

FoundFullStateUpdate(s) ==
    /\ pc = "state_update_query"
    /\ timer > 0
    /\ s \in StateUpdate
    /\ update_reply' = s
    /\ Return(Ok(None, Some(s)))
    /\ UNCHANGED <<rpc_vars, prev_sent, revised, head, poll_interval, cycle, block_reply, block,
                   state_update, to_download, storage, fetches, chan,
                   rx_open, sent_count, sent_in_cycle>>

(***************************************************************************)
(* MaybePendingStateUpdate::Pending with old_root != head.1                *)
(***************************************************************************)
PendingUpdateDisconnected_Continues(u) ==
    /\ pc = "state_update_query"
    /\ timer > 0
    /\ u \in PendingStateUpdate
    /\ OldRootMismatch(u, head)
    /\ update_reply' = u
    /\ Sleep("sleep_head")
    /\ UNCHANGED <<rpc_vars, prev_sent, revised, head, poll_interval, cycle, block_reply, block,
                   state_update, to_download, storage, fetches, chan,
                   rx_open, sent_count, sent_in_cycle>>

PendingUpdateDisconnected(u) ==
    /\ pc = "state_update_query"
    /\ timer > 0
    /\ u \in PendingStateUpdate
    /\ OldRootMismatch(u, head)
    /\ update_reply' = u
    /\ Return(Ok(None, None))
    /\ UNCHANGED <<rpc_vars, prev_sent, revised, head, poll_interval, cycle, block_reply, block,
                   state_update, to_download, storage, fetches, chan,
                   rx_open, sent_count, sent_in_cycle>>

(***************************************************************************)
(* MaybePendingStateUpdate::Pending with old_root == head.1: the state     *)
(* update is kept and download_new_classes is called on its state diff.    *)
(***************************************************************************)
PendingUpdateConnected(u) ==
    /\ pc = "state_update_query"
    /\ timer > 0
    /\ u \in PendingStateUpdate
    /\ ~OldRootMismatch(u, head)
    /\ update_reply' = u
    /\ state_update' = Some(u)
    /\ to_download' = NewClasses(u.state_diff, storage)
    /\ pc' = "download_classes"
    /\ timer' = 0
    /\ UNCHANGED <<rpc_vars, prev_sent, revised, head, poll_interval, cycle, block_reply, block, storage,
                   fetches, chan, rx_open, sent_count, sent_in_cycle, result>>

(***************************************************************************)
(* download_new_classes fetches one missing class and persists it.  It is  *)
(* also handed tx_event; what it sends there itself is not modelled: the   *)
(* events of this model are the SyncEvent::Pending of line 108.            *)
(***************************************************************************)
DownloadClass_Emits(c) ==
    /\ pc = "download_classes"
    /\ c \in to_download
    /\ rx_open
    /\ Len(chan) < ChannelCapacity
    /\ to_download' = to_download \ {c}
    /\ storage' = storage \cup {c}
    /\ fetches' = fetches + 1
    /\ chan' = Append(chan, [kind |-> "Class", class |-> c])
    /\ sent_count' = sent_count + 1
    /\ sent_in_cycle' = Append(sent_in_cycle, [kind |-> "Class", class |-> c])
    /\ UNCHANGED <<rpc_vars, prev_sent, revised, head, poll_interval, pc, cycle, block_reply,
                   update_reply, block, state_update, rx_open, result, timer>>

DownloadClass(c) ==
    /\ pc = "download_classes"
    /\ c \in to_download
    /\ to_download' = to_download \ {c}
    /\ storage' = storage \cup {c}
    /\ fetches' = fetches + 1
    /\ UNCHANGED <<rpc_vars, prev_sent, revised, head, poll_interval, pc, cycle, block_reply, update_reply,
                   block, state_update, chan, rx_open, sent_count,
                   sent_in_cycle, result, timer>>

(***************************************************************************)
(* The fetch or the write of a missing class fails: download_new_classes   *)
(* fails as a whole and `?` returns the error.                             *)
(***************************************************************************)
DownloadClassFailed_Ignored(c) ==
    /\ pc = "download_classes"
    /\ c \in to_download
    /\ fetches' = fetches + 1
    /\ pc' = "send"
    /\ UNCHANGED <<rpc_vars, prev_sent, revised, head, poll_interval, cycle, block_reply, update_reply,
                   block, state_update, to_download, storage, chan, rx_open,
                   sent_count, sent_in_cycle, result, timer>>

DownloadClassFailed(c) ==
    /\ pc = "download_classes"
    /\ c \in to_download
    /\ fetches' = fetches + 1
    /\ Return(Err("Handling newly declared classes for pending block"))
    /\ UNCHANGED <<rpc_vars, prev_sent, revised, head, poll_interval, cycle, block_reply, update_reply,
                   block, state_update, to_download, storage, chan, rx_open,
                   sent_count, sent_in_cycle>>

(***************************************************************************)
(* download_new_classes returns Ok(()): tx_event.send(..) is called next.  *)
(***************************************************************************)
ClassesResolved_Early ==
    /\ pc = "download_classes"
    /\ pc' = "send"
    /\ UNCHANGED <<rpc_vars, prev_sent, revised, head, poll_interval, cycle,
                   block_reply, update_reply, block, state_update,
                   to_download, storage, fetches, chan, rx_open, sent_count,
                   sent_in_cycle, result, timer>>

ClassesResolved ==
    /\ pc = "download_classes"
    /\ to_download = {}
    /\ pc' = "send"
    /\ UNCHANGED <<rpc_vars, prev_sent, revised, head, poll_interval, cycle, block_reply, update_reply,
                   block, state_update, to_download, storage, fetches, chan,
                   rx_open, sent_count, sent_in_cycle, result, timer>>

(***************************************************************************)
(* The event poll_pending builds from its locals (line 108).               *)
(***************************************************************************)
PendingEvent(b, u) == SyncEventPending(b.value, u.value)

(***************************************************************************)
(* tx_event.send(SyncEvent::Pending(..)) completes: the channel has room   *)
(* and its receiver is alive.  Then poll_pending sleeps.                   *)
(***************************************************************************)
SendPending_Returns ==
    /\ pc = "send"
    /\ rx_open
    /\ Len(chan) < ChannelCapacity
    /\ chan' = Append(chan, PendingEvent(block, state_update))
    /\ sent_count' = sent_count + 1
    /\ sent_in_cycle' = Append(sent_in_cycle,
                                PendingEvent(block, state_update))
    /\ Return(Ok(None, None))
    /\ UNCHANGED <<rpc_vars, prev_sent, revised, head, poll_interval, cycle, block_reply, update_reply,
                   block, state_update, to_download, storage, fetches,
                   rx_open>>

SendPending_TrySend ==
    /\ pc = "send"
    /\ rx_open
    /\ IF Len(chan) < ChannelCapacity
       THEN /\ chan' = Append(chan, PendingEvent(block, state_update))
            /\ sent_count' = sent_count + 1
            /\ sent_in_cycle' = Append(sent_in_cycle,
                                       PendingEvent(block, state_update))
            /\ Sleep("sleep_sent")
       ELSE /\ Return(Err("Event channel closed"))
            /\ UNCHANGED <<chan, sent_count, sent_in_cycle>>
    /\ UNCHANGED <<rpc_vars, prev_sent, revised, head, poll_interval, cycle, block_reply,
                   update_reply, block, state_update, to_download, storage,
                   fetches, rx_open>>

SendPending_Unbounded ==
    /\ pc = "send"
    /\ rx_open
    /\ chan' = Append(chan, PendingEvent(block, state_update))
    /\ sent_count' = sent_count + 1
    /\ sent_in_cycle' = Append(sent_in_cycle,
                                PendingEvent(block, state_update))
    /\ Sleep("sleep_sent")
    /\ UNCHANGED <<rpc_vars, prev_sent, revised, head, poll_interval, cycle,
                   block_reply, update_reply, block, state_update,
                   to_download, storage, fetches, rx_open>>

SendPending_Dedup ==
    /\ pc = "send"
    /\ rx_open
    /\ Len(chan) < ChannelCapacity
    /\ IF prev_sent = <<PendingEvent(block, state_update)>>
       THEN UNCHANGED <<chan, sent_count, sent_in_cycle>>
       ELSE /\ chan' = Append(chan, PendingEvent(block, state_update))
            /\ sent_count' = sent_count + 1
            /\ sent_in_cycle' = Append(sent_in_cycle,
                                       PendingEvent(block, state_update))
    /\ Sleep("sleep_sent")
    /\ UNCHANGED <<rpc_vars, prev_sent, revised, head, poll_interval, cycle,
                   block_reply, update_reply, block, state_update,
                   to_download, storage, fetches, rx_open>>

SendPending ==
    /\ pc = "send"
    /\ rx_open
    /\ Len(chan) < ChannelCapacity
    /\ chan' = Append(chan, PendingEvent(block, state_update))
    /\ sent_count' = sent_count + 1
    /\ sent_in_cycle' = Append(sent_in_cycle,
                                PendingEvent(block, state_update))
    /\ Sleep("sleep_sent")
    /\ UNCHANGED <<rpc_vars, prev_sent, revised, head, poll_interval, cycle, block_reply, update_reply,
                   block, state_update, to_download, storage, fetches,
                   rx_open>>

(***************************************************************************)
(* tx_event.send(..) fails, the receiver is gone: `?` returns the error.   *)
(***************************************************************************)
SendFailed_Continues ==
    /\ pc = "send"
    /\ ~rx_open
    /\ Sleep("sleep_sent")
    /\ UNCHANGED <<rpc_vars, prev_sent, revised, head, poll_interval, cycle, block_reply,
                   update_reply, block, state_update, to_download, storage,
                   fetches, chan, rx_open, sent_count, sent_in_cycle>>

SendFailed ==
    /\ pc = "send"
    /\ ~rx_open
    /\ Return(Err("Event channel closed"))
    /\ UNCHANGED <<rpc_vars, prev_sent, revised, head, poll_interval, cycle, block_reply, update_reply,
                   block, state_update, to_download, storage, fetches, chan,
                   rx_open, sent_count, sent_in_cycle>>

(***************************************************************************)
(* The top of `loop`: the locals of the last iteration are gone and the    *)
(* pending block is queried again.                                         *)
(***************************************************************************)
StartCycle ==
    /\ cycle < MaxCycles
    /\ cycle' = cycle + 1
    /\ pc' = "block_query"
    /\ block_reply' = NoReply
    /\ update_reply' = NoReply
    /\ block' = None
    /\ state_update' = None
    /\ prev_sent' = sent_in_cycle
    /\ sent_in_cycle' = <<>>
    /\ revised' = FALSE
    /\ timer' = 0

(***************************************************************************)
(* tokio::time::sleep(poll_interval).await; continue (lines 42-43)         *)
(***************************************************************************)
HeadSleepElapsed_Early ==
    /\ pc = "sleep_head"
    /\ StartCycle
    /\ UNCHANGED <<rpc_vars, head, poll_interval, to_download, storage,
                   fetches, chan, rx_open, sent_count, result>>

HeadSleepElapsed ==
    /\ pc = "sleep_head"
    /\ timer = 0
    /\ StartCycle
    /\ UNCHANGED <<rpc_vars, head, poll_interval, to_download, storage, fetches, chan,
                   rx_open, sent_count, result>>

(***************************************************************************)
(* tokio::time::sleep(poll_interval).await at the end of the loop body     *)
(***************************************************************************)
SentSleepElapsed_AdvancesHead ==
    /\ pc = "sleep_sent"
    /\ timer = 0
    /\ StartCycle
    /\ head' = <<(head[1] + 1) % (MaxHash + 1), head[2]>>
    /\ UNCHANGED <<rpc_vars, poll_interval, to_download, storage, fetches,
                   chan, rx_open, sent_count, result>>

SentSleepElapsed ==
    /\ pc = "sleep_sent"
    /\ timer = 0
    /\ StartCycle
    /\ UNCHANGED <<rpc_vars, head, poll_interval, to_download, storage, fetches, chan,
                   rx_open, sent_count, result>>

(***************************************************************************)
(* Environment: the clock.  One tick passes for the armed timer, which     *)
(* fires when no tick is left.  Only an armed timer measures time: what    *)
(* passes at the other suspension points changes nothing.                  *)
(***************************************************************************)
TimerArmed == pc \in {"state_update_query", "sleep_head", "sleep_sent"}

Tick ==
    /\ TimerArmed
    /\ timer > 0
    /\ timer' = timer - 1
    /\ UNCHANGED <<rpc_vars, prev_sent, revised, head, poll_interval, pc, cycle, block_reply, update_reply,
                   block, state_update, to_download, storage, fetches, chan,
                   rx_open, sent_count, sent_in_cycle, result>>

(***************************************************************************)
(* Environment: the gateway replaces its pending block while the state     *)
(* update query of lines 65-69 is in flight.  The block of line 34 was     *)
(* served before the replacement, the state update is served after it.     *)
(***************************************************************************)
GatewayRevises ==
    /\ pc = "state_update_query"
    /\ timer > 0
    /\ ~revised
    /\ revised' = TRUE
    /\ UNCHANGED <<rpc_vars, prev_sent, head, poll_interval, pc, cycle, block_reply, update_reply,
                   block, state_update, to_download, storage, fetches, chan,
                   rx_open, sent_count, sent_in_cycle, result, timer>>

(***************************************************************************)
(* Environment: the consumer takes the oldest event (rx.recv()).           *)
(***************************************************************************)
Receive ==
    /\ rx_open
    /\ chan # <<>>
    /\ chan' = Tail(chan)
    /\ UNCHANGED <<rpc_vars, prev_sent, revised, head, poll_interval, pc, cycle, block_reply, update_reply,
                   block, state_update, to_download, storage, fetches,
                   rx_open, sent_count, sent_in_cycle, result, timer>>

(***************************************************************************)
(* Environment: the receiver is dropped; the buffered events go with it.   *)
(***************************************************************************)
DropReceiver ==
    /\ rx_open
    /\ rx_open' = FALSE
    /\ chan' = <<>>
    /\ UNCHANGED <<rpc_vars, prev_sent, revised, head, poll_interval, pc, cycle, block_reply, update_reply,
                   block, state_update, to_download, storage, fetches,
                   sent_count, sent_in_cycle, result, timer>>

Next ==
    \/ BlockQueryFailed
    \/ \E b \in Block : FoundCurrentHead(b)
    \/ \E b \in Block : FoundFullBlock(b)
    \/ \E p \in PendingBlock : PendingBlockDisconnected(p)
    \/ \E p \in PendingBlock : PendingBlockConnected(p)
    \/ StateUpdateTimedOut
    \/ StateUpdateQueryFailed
    \/ \E s \in StateUpdate : FoundFullStateUpdate(s)
    \/ \E u \in PendingStateUpdate : PendingUpdateDisconnected(u)
    \/ \E u \in PendingStateUpdate : PendingUpdateConnected(u)
    \/ \E c \in Classes : DownloadClass(c)
    \/ \E c \in Classes : DownloadClassFailed(c)
    \/ ClassesResolved
    \/ SendPending
    \/ SendFailed
    \/ HeadSleepElapsed
    \/ SentSleepElapsed
    \/ Tick
    \/ GatewayRevises
    \/ Receive
    \/ DropReceiver

Spec == Init /\ [][Next]_vars

(***************************************************************************)
(* The steps of the poll_pending task itself, taken as soon as the future  *)
(* it awaits is ready: a gateway call that resolves, a timer that fired,   *)
(* a send that completes or fails.                                         *)
(***************************************************************************)
PollerStep ==
    \/ BlockQueryFailed
    \/ \E b \in Block : FoundCurrentHead(b)
    \/ \E b \in Block : FoundFullBlock(b)
    \/ \E p \in PendingBlock : PendingBlockDisconnected(p)
    \/ \E p \in PendingBlock : PendingBlockConnected(p)
    \/ StateUpdateTimedOut
    \/ StateUpdateQueryFailed
    \/ \E s \in StateUpdate : FoundFullStateUpdate(s)
    \/ \E u \in PendingStateUpdate : PendingUpdateDisconnected(u)
    \/ \E u \in PendingStateUpdate : PendingUpdateConnected(u)
    \/ \E c \in Classes : DownloadClass(c)
    \/ \E c \in Classes : DownloadClassFailed(c)
    \/ ClassesResolved
    \/ SendPending
    \/ SendFailed
    \/ HeadSleepElapsed
    \/ SentSleepElapsed

(***************************************************************************)
(* The tokio runtime polls a task whose awaited future is ready, and time  *)
(* passes.  Nothing makes the consumer of tx_event take an event or drop   *)
(* the receiver: Receive and DropReceiver carry no fairness.               *)
(***************************************************************************)
FairSpec == Spec /\ WF_vars(PollerStep) /\ WF_vars(Tick)

(***************************************************************************)
(* types::Block::from_parts: a block read from the storage.                *)
(***************************************************************************)
from_parts(h, status) ==
    [status |-> status,
     block_hash |-> Some(h.hash),
     parent_hash |-> h.parent_hash,
     block_number |-> Some(h.number),
     new_root |-> Some(h.state_commitment),
     timestamp |-> h.timestamp]

(***************************************************************************)
(* types::Block::from_sequencer: a block in the gateway's representation.  *)
(* A pending block has no hash, no number and no state commitment yet.     *)
(***************************************************************************)
from_sequencer_WithNumber(b) ==
    IF b.kind = "Block"
    THEN [status |-> b.status,
          block_hash |-> Some(b.block_hash),
          parent_hash |-> b.parent_block_hash,
          block_number |-> Some(b.block_number),
          new_root |-> Some(b.state_commitment),
          timestamp |-> b.timestamp]
    ELSE [status |-> "PENDING",
          block_hash |-> None,
          parent_hash |-> b.parent_hash,
          block_number |-> Some(0),
          new_root |-> None,
          timestamp |-> b.timestamp]

from_sequencer(b) ==
    IF b.kind = "Block"
    THEN [status |-> b.status,
          block_hash |-> Some(b.block_hash),
          parent_hash |-> b.parent_block_hash,
          block_number |-> Some(b.block_number),
          new_root |-> Some(b.state_commitment),
          timestamp |-> b.timestamp]
    ELSE [status |-> "PENDING",
          block_hash |-> None,
          parent_hash |-> b.parent_hash,
          block_number |-> None,
          new_root |-> None,
          timestamp |-> b.timestamp]

(***************************************************************************)
(* `return` of get_block_with_txs.                                         *)
(***************************************************************************)
RpcReturn(r) ==
    /\ rpc_pc' = "done"
    /\ reply' = r

(***************************************************************************)
(* BlockId::Pending with context.pending_data == None: ok_or_else(..)?     *)
(***************************************************************************)
PendingNotSupported ==
    /\ rpc_pc = "call"
    /\ input.kind = "Pending"
    /\ pending_data = None
    /\ RpcReturn(Internal("Pending data not supported in this configuration"))
    /\ UNCHANGED <<poller_vars, pending_data, input, header, db_reads>>

(***************************************************************************)
(* BlockId::Pending, pending_data.block().await is None                    *)
(***************************************************************************)
PendingBlockMissing ==
    /\ rpc_pc = "call"
    /\ input.kind = "Pending"
    /\ pending_data = Some(None)
    /\ RpcReturn(BlockNotFound)
    /\ UNCHANGED <<poller_vars, pending_data, input, header, db_reads>>

(***************************************************************************)
(* BlockId::Pending, pending_data.block().await is Some(block): the block  *)
(* is converted and returned, the storage is not touched.                  *)
(***************************************************************************)
PendingBlockReturned ==
    /\ rpc_pc = "call"
    /\ input.kind = "Pending"
    /\ pending_data.kind = "Some"
    /\ pending_data.value.kind = "Some"
    /\ RpcReturn(RpcOk(from_sequencer(pending_data.value.value)))
    /\ UNCHANGED <<poller_vars, pending_data, input, header, db_reads>>

(***************************************************************************)
(* other => other.try_into(): the block is looked up in the storage, in    *)
(* spawn_blocking.                                                         *)
(***************************************************************************)
ReadFromStorage ==
    /\ rpc_pc = "call"
    /\ input.kind # "Pending"
    /\ rpc_pc' = "read"
    /\ UNCHANGED <<poller_vars, pending_data, input, header, reply, db_reads>>

(***************************************************************************)
(* The connection, the transaction or the read of the header fails: `?`    *)
(***************************************************************************)
DatabaseReadFailed ==
    /\ rpc_pc = "read"
    /\ header' = ReadError
    /\ db_reads' = db_reads + 1
    /\ RpcReturn(Internal("Reading block from database"))
    /\ UNCHANGED <<poller_vars, pending_data, input>>

(***************************************************************************)
(* block_header(block_id) is Ok(None): ok_or(GetBlockError::BlockNotFound)?*)
(***************************************************************************)
BlockHeaderMissing ==
    /\ rpc_pc = "read"
    /\ header' = None
    /\ db_reads' = db_reads + 1
    /\ RpcReturn(BlockNotFound)
    /\ UNCHANGED <<poller_vars, pending_data, input>>

(***************************************************************************)
(* The header the storage holds for a block id is the one of that number   *)
(* or hash; Latest is any header.                                          *)
(***************************************************************************)
HeaderOf(h, id) ==
    \/ id.kind = "Latest"
    \/ id.kind = "Number" /\ h.number = id.number
    \/ id.kind = "Hash" /\ h.hash = id.hash

(***************************************************************************)
(* block_header(block_id) is Ok(Some(header))                              *)
(***************************************************************************)
BlockHeaderFound(h) ==
    /\ rpc_pc = "read"
    /\ h \in BlockHeader
    /\ HeaderOf(h, input)
    /\ header' = Some(h)
    /\ db_reads' = db_reads + 1
    /\ rpc_pc' = "transactions"
    /\ UNCHANGED <<poller_vars, pending_data, input, reply>>

(***************************************************************************)
(* block_is_l1_accepted or get_block_transactions fails: `?`               *)
(***************************************************************************)
TransactionsReadFailed ==
    /\ rpc_pc = "transactions"
    /\ db_reads' = db_reads + 1
    /\ RpcReturn(Internal("Reading transactions from database"))
    /\ UNCHANGED <<poller_vars, pending_data, input, header>>

(***************************************************************************)
(* Ok(types::Block::from_parts(header, block_status, transactions))        *)
(***************************************************************************)
StoredBlockReturned(l1_accepted) ==
    /\ rpc_pc = "transactions"
    /\ db_reads' = db_reads + 1
    /\ RpcReturn(RpcOk(from_parts(header.value,
                                  IF l1_accepted THEN "ACCEPTED_ON_L1"
                                                 ELSE "ACCEPTED_ON_L2")))
    /\ UNCHANGED <<poller_vars, pending_data, input, header>>

(***************************************************************************)
(* A call of get_block_with_txs: any context, any block id.  poll_pending  *)
(* takes no part in it.                                                    *)
(***************************************************************************)
RpcInit ==
    /\ pending_data \in PendingData
    /\ input \in BlockId
    /\ rpc_pc = "call"
    /\ header = NotRead
    /\ reply = Running
    /\ db_reads = 0
    /\ head = <<0, 0>>
    /\ poll_interval = 0
    /\ pc = "block_query"
    /\ cycle = 1
    /\ block_reply = NoReply
    /\ update_reply = NoReply
    /\ block = None
    /\ state_update = None
    /\ to_download = {}
    /\ storage = {}
    /\ fetches = 0
    /\ chan = <<>>
    /\ rx_open = TRUE
    /\ sent_count = 0
    /\ sent_in_cycle = <<>>
    /\ result = Running
    /\ timer = 0
    /\ revised = FALSE
    /\ prev_sent = <<>>

RpcNext ==
    \/ PendingNotSupported
    \/ PendingBlockMissing
    \/ PendingBlockReturned
    \/ ReadFromStorage
    \/ DatabaseReadFailed
    \/ BlockHeaderMissing
    \/ \E h \in BlockHeader : BlockHeaderFound(h)
    \/ TransactionsReadFailed
    \/ \E l1_accepted \in BOOLEAN : StoredBlockReturned(l1_accepted)

RpcSpec == RpcInit /\ [][RpcNext]_vars

TypeOK ==
    /\ pending_data \in PendingData
    /\ input \in BlockId
    /\ rpc_pc \in {"idle", "call", "read", "transactions", "done"}
    /\ header \in {NotRead, ReadError, None} \cup {Some(h) : h \in BlockHeader}
    /\ reply.tag = "Ok" => reply.block.status \in BlockStatus
    /\ db_reads \in 0..2
    /\ head \in Hashes \X Roots
    /\ poll_interval \in PollIntervals
    /\ pc \in {"block_query", "sleep_head", "state_update_query",
               "download_classes", "send", "sleep_sent", "done"}
    /\ cycle \in 1..MaxCycles
    /\ block_reply \in MaybePendingBlock \cup {NoReply, GatewayError}
    /\ update_reply \in MaybePendingStateUpdate
                            \cup {NoReply, GatewayError, Elapsed}
    /\ to_download \subseteq Classes
    /\ storage \subseteq Classes
    /\ Len(chan) <= ChannelCapacity
    /\ rx_open \in BOOLEAN
    /\ result.tag \in {"Running", "Ok", "Err"}
    /\ fetches \in Nat
    /\ sent_count \in 0..MaxCycles
    /\ Len(sent_in_cycle) <= 1
    /\ timer \in 0..StateUpdateTimeout
    /\ revised \in BOOLEAN
    /\ Len(prev_sent) <= 1

(***************************************************************************)
(* Properties of poll_pending.                                             *)
(*                                                                         *)
(* block_reply and update_reply are the replies of the current cycle and   *)
(* sent_in_cycle the events it sent: a predicate on them that holds in     *)
(* every reachable state holds of every cycle of every run.                *)
(***************************************************************************)
BlockConnected ==
    block_reply.kind = "Pending" /\ block_reply.parent_hash = head[1]

UpdateConnected ==
    update_reply.kind = "Pending" /\ update_reply.old_root = head[2]

ExtendsHead(e) ==
    e.block.parent_hash = head[1] /\ e.state_update.old_root = head[2]

(***************************************************************************)
(* C1: every SyncEvent::Pending(b, u) sent on the sink, in this cycle or   *)
(* still buffered from an earlier one, has b.parent_hash = head.0 and      *)
(* u.old_root = head.1; a cycle in which the pending block and the pending *)
(* state update do not both match the head sends no event.                 *)
(***************************************************************************)
C1_PendingExtendsHead ==
    /\ \A i \in 1..Len(sent_in_cycle) : ExtendsHead(sent_in_cycle[i])
    /\ \A i \in 1..Len(chan) : ExtendsHead(chan[i])
    /\ ~(BlockConnected /\ UpdateConnected) => sent_in_cycle = <<>>

C1_Witness ==
    /\ sent_count >= 1
    /\ chan # <<>>
    /\ BlockConnected
    /\ update_reply.kind = "Pending"
    /\ update_reply.old_root # head[2]

C3_FullBlockReturned ==
    block_reply.kind = "Block" /\ block_reply.block_hash # head[1]
        => /\ pc = "done"
           /\ result = Ok(Some(block_reply), None)
           /\ sent_in_cycle = <<>>

C3_Witness ==
    /\ block_reply.kind = "Block"
    /\ block_reply.block_hash # head[1]
    /\ block_reply.parent_block_hash # head[1]
    /\ result.tag = "Ok"
    /\ sent_count = 1

(***************************************************************************)
(* C4: a cycle whose block query returned a pending block with parent_hash *)
(* # head.0 returns Ok((None, None)) and sends no event.                   *)
(***************************************************************************)
C4_BlockDiscontinuity ==
    block_reply.kind = "Pending" /\ block_reply.parent_hash # head[1]
        => /\ pc = "done"
           /\ result = Ok(None, None)
           /\ update_reply = NoReply
           /\ sent_in_cycle = <<>>

C4_Witness ==
    /\ block_reply.kind = "Pending"
    /\ block_reply.parent_hash # head[1]
    /\ pc = "done"
    /\ cycle = 2

(***************************************************************************)
(* C5: a cycle whose pending block matched head.0 and whose state update   *)
(* query returned a pending state update with old_root # head.1 returns    *)
(* Ok((None, None)) and sends no event.                                    *)
(***************************************************************************)
C5_StateDiscontinuity ==
    (BlockConnected /\ update_reply.kind = "Pending"
                    /\ update_reply.old_root # head[2])
        => /\ pc = "done"
           /\ result = Ok(None, None)
           /\ sent_in_cycle = <<>>

C5_Witness ==
    /\ BlockConnected
    /\ update_reply.kind = "Pending"
    /\ update_reply.old_root # head[2]
    /\ update_reply.state_diff # {}
    /\ pc = "done"

(***************************************************************************)
(* C6: a cycle whose pending block matched head.0 and whose state update   *)
(* query returned a full state update S returns Ok((None, Some(S))) with   *)
(* that very state update and sends no event.                              *)
(***************************************************************************)
C6_FullStateUpdateReturned ==
    BlockConnected /\ update_reply.kind = "StateUpdate"
        => /\ pc = "done"
           /\ result = Ok(None, Some(update_reply))
           /\ sent_in_cycle = <<>>

C6_Witness ==
    /\ BlockConnected
    /\ update_reply.kind = "StateUpdate"
    /\ update_reply.old_root # head[2]
    /\ update_reply.block_hash = head[1]
    /\ result.tag = "Ok"

(***************************************************************************)
(* C7 as stated: in a cycle whose pending block P and pending state update *)
(* U both matched the head and whose class resolution succeeded, once the  *)
(* publish step is over exactly one event, SyncEvent::Pending(P, U), has   *)
(* been sent and poll_pending keeps polling instead of returning.          *)
(***************************************************************************)
C7_ExtensionAlwaysEmits ==
    (BlockConnected /\ UpdateConnected /\ to_download = {}
                    /\ pc \notin {"download_classes", "send"})
        => /\ sent_in_cycle = <<SyncEventPending(block_reply, update_reply)>>
           /\ pc = "sleep_sent"
           /\ result = Running

(***************************************************************************)
(* C7 amended: the same, provided the receiver of the sink is alive when   *)
(* the send completes.  The send then leaves exactly one event in the      *)
(* cycle, SyncEvent::Pending(P, U) with the block and the state update the *)
(* gateway returned in this cycle, appended to the channel; no cycle sends *)
(* two events; and from the sleep that follows poll_pending only goes on   *)
(* to the next cycle, it does not return.                                  *)
(***************************************************************************)
C7_ExtensionEmitsOnce ==
    /\ [](Len(sent_in_cycle) <= 1)
    /\ [](pc = "sleep_sent"
            => /\ BlockConnected
               /\ UpdateConnected
               /\ sent_in_cycle
                    = <<SyncEventPending(block_reply, update_reply)>>
               /\ result = Running)
    /\ [][pc = "send" /\ pc' # "send" /\ rx_open
            => /\ pc' = "sleep_sent"
               /\ sent_count' = sent_count + 1
               /\ chan' = Append(chan,
                                 SyncEventPending(block_reply, update_reply))
               /\ result' = Running]_vars
    /\ [][pc = "sleep_sent"
            => /\ pc' \in {"sleep_sent", "block_query"}
               /\ sent_count' = sent_count
               /\ result' = Running]_vars

C7_Witness ==
    /\ pc = "sleep_sent"
    /\ cycle = 2
    /\ sent_count = 2
    /\ sent_in_cycle = <<SyncEventPending(block_reply, update_reply)>>
    /\ update_reply.state_diff # {}

(***************************************************************************)
(* C8: the state update query is issued with a timer of                    *)
(* StateUpdateTimeout (3 minutes); when the timer has run out with the     *)
(* query unresolved, the only thing poll_pending does is take the timeout  *)
(* arm, and a cycle that took it has returned Ok((None, None)), not Err,   *)
(* and has sent no event.                                                  *)
(***************************************************************************)
C8_TimeoutIsSoftExit ==
    /\ [](update_reply = Elapsed
            => /\ pc = "done"
               /\ result = Ok(None, None)
               /\ sent_in_cycle = <<>>)
    /\ [][pc # "state_update_query" /\ pc' = "state_update_query"
            => timer' = StateUpdateTimeout]_vars
    /\ [][pc = "state_update_query" /\ timer = 0 /\ pc' # pc
            => update_reply' = Elapsed]_vars
    /\ [][update_reply # Elapsed /\ update_reply' = Elapsed
            => pc = "state_update_query" /\ timer = 0]_vars

C8_Witness ==
    /\ update_reply = Elapsed
    /\ BlockConnected
    /\ cycle = 2
    /\ sent_count = 1

(***************************************************************************)
(* C9: a cycle whose block query failed, or whose state update query       *)
(* failed before the timeout, has returned Err: the query is not issued    *)
(* again and no event is sent in that cycle.                               *)
(***************************************************************************)
C9_GatewayErrorIsFatal ==
    /\ block_reply = GatewayError
        => /\ pc = "done"
           /\ result.tag = "Err"
           /\ update_reply = NoReply
           /\ sent_in_cycle = <<>>
    /\ update_reply = GatewayError
        => /\ pc = "done"
           /\ result.tag = "Err"
           /\ BlockConnected
           /\ sent_in_cycle = <<>>

C9_Witness ==
    /\ update_reply = GatewayError
    /\ result.tag = "Err"
    /\ cycle = 2
    /\ sent_count = 1

(***************************************************************************)
(* C10: a cycle whose class resolution failed (a class of the state diff   *)
(* was left unresolved when download_new_classes was over) has returned    *)
(* Err and has sent no event; and an event is only ever sent from the      *)
(* publish step of a cycle whose class resolution is complete.             *)
(***************************************************************************)
C10_NoEventWithoutClasses ==
    /\ [](update_reply.kind = "Pending" /\ to_download # {}
                                         /\ pc # "download_classes"
            => /\ pc = "done"
               /\ result.tag = "Err"
               /\ sent_in_cycle = <<>>)
    /\ [](sent_in_cycle # <<>> => to_download = {})
    /\ [][sent_count' # sent_count \/ sent_in_cycle' \notin {sent_in_cycle, <<>>}
            => pc = "send" /\ to_download = {}]_vars

C10_Witness ==
    /\ pc = "done"
    /\ result = Err("Handling newly declared classes for pending block")
    /\ to_download # {}
    /\ sent_in_cycle = <<>>
    /\ cycle = 2
    /\ sent_count = 1

(***************************************************************************)
(* C11: when the send of SyncEvent::Pending is attempted and the sink has  *)
(* no receiver, the step poll_pending takes is a return of                 *)
(* Err("Event channel closed"): no event is counted as sent and no further *)
(* cycle starts.  The sleep that follows a send is only ever reached with  *)
(* the event of the cycle sent.                                            *)
(***************************************************************************)
C11_ClosedSinkIsFatal ==
    /\ [][(pc = "send" /\ ~rx_open /\ pc' # "send")
            => /\ pc' = "done"
               /\ result' = Err("Event channel closed")
               /\ cycle' = cycle
               /\ sent_count' = sent_count
               /\ sent_in_cycle' = <<>>]_vars
    /\ [](pc = "sleep_sent" => sent_in_cycle # <<>>)
    /\ [](result = Err("Event channel closed")
            => ~rx_open /\ pc = "done" /\ sent_in_cycle = <<>>)

C11_Witness ==
    /\ pc = "done"
    /\ result = Err("Event channel closed")
    /\ ~rx_open
    /\ cycle = 2
    /\ sent_count = 1

(***************************************************************************)
(* The model stops a run at the sleep of its last cycle: what follows that *)
(* sleep is outside the cycles explored.                                   *)
(***************************************************************************)
CycleBoundReached ==
    /\ cycle = MaxCycles
    /\ pc \in {"sleep_head", "sleep_sent"}

(***************************************************************************)
(* C12, as stated: from any state in which the sink is full or closed,     *)
(* poll_pending eventually returns (or the cycles explored are used up).   *)
(***************************************************************************)
C12_FullOrClosedSinkTerminates ==
    (Len(chan) = ChannelCapacity \/ ~rx_open)
        ~> (pc = "done" \/ CycleBoundReached)

(***************************************************************************)
(* C12, amended: at a send on a sink whose receiver is gone the step that  *)
(* returns Err is enabled and is the only step there is, so poll_pending   *)
(* returns; a send on a full sink whose receiver is alive suspends         *)
(* poll_pending, which neither returns nor goes on until the consumer      *)
(* takes an event or drops the receiver.                                   *)
(***************************************************************************)
C12_ClosedSinkTerminatesFullSinkBlocks ==
    /\ [](pc = "send" /\ ~rx_open => ENABLED SendFailed)
    /\ [][(pc = "send" /\ ~rx_open)
            => pc' = "done" /\ result'.tag = "Err"]_vars
    /\ [][(pc = "send" /\ rx_open /\ Len(chan) = ChannelCapacity)
            => /\ pc' = "send"
               /\ result' = Running
               /\ sent_count' = sent_count
               /\ (chan' = chan \/ chan' = Tail(chan) \/ ~rx_open')]_vars

C12_Witness ==
    /\ pc = "send"
    /\ rx_open
    /\ Len(chan) = ChannelCapacity
    /\ result = Running
    /\ cycle = 2

C14_ReturnShapes ==
    result.tag = "Ok" =>
        /\ ~(result.block.kind = "Some" /\ result.state_update.kind = "Some")
        /\ result.block.kind = "Some"
            => /\ result.state_update = None
               /\ block_reply.kind = "Block"
               /\ result.block.value = block_reply
        /\ result.state_update.kind = "Some"
            => /\ result.block = None
               /\ update_reply.kind = "StateUpdate"
               /\ result.state_update.value = update_reply
        /\ (result.block = None /\ result.state_update = None)
            => \/ /\ block_reply.kind = "Pending"
                  /\ block_reply.parent_hash # head[1]
                  /\ update_reply = NoReply
               \/ /\ BlockConnected
                  /\ update_reply.kind = "Pending"
                  /\ update_reply.old_root # head[2]
               \/ /\ BlockConnected
                  /\ update_reply = Elapsed

C14_Witness ==
    /\ result = Ok(None, None)
    /\ BlockConnected
    /\ update_reply.kind = "Pending"
    /\ update_reply.old_root # head[2]
    /\ cycle = 2
    /\ sent_count = 1

(***************************************************************************)
(* C15, as stated: the block and the state update of every event sent      *)
(* were served from the same pending snapshot of the gateway: no event is  *)
(* sent in a cycle in which the gateway replaced its pending block between *)
(* the block query and the state update query.                             *)
(***************************************************************************)
C15_EventFromOneSnapshot ==
    sent_in_cycle # <<>> => ~revised

C17_ClassResolutionIdempotent ==
    /\ [][(pc = "download_classes"
              /\ update_reply.state_diff \subseteq storage)
            => /\ storage' = storage
               /\ fetches' = fetches
               /\ result' = Running
               /\ pc' \in {"download_classes", "send"}]_vars
    /\ [](pc = "download_classes" /\ update_reply.state_diff \subseteq storage
            => ENABLED ClassesResolved)
    /\ [][fetches' # fetches
            => /\ fetches' = fetches + 1
               /\ pc = "download_classes"
               /\ update_reply.state_diff \ storage # {}]_vars
    /\ [](pc \in {"send", "sleep_sent"}
            => update_reply.state_diff \subseteq storage)

C17_Witness ==
    /\ cycle = 2
    /\ pc = "send"
    /\ Len(chan) = 1
    /\ chan[1].state_update.state_diff = update_reply.state_diff
    /\ update_reply.state_diff # {}
    /\ fetches = 1
    /\ sent_count = 1

(***************************************************************************)
(* C18: a finished call of get_block_with_txs for BlockId::Pending has     *)
(* returned the Internal error "Pending data not supported in this         *)
(* configuration" when the context has no pending data, BlockNotFound when *)
(* the pending data holds no block, and otherwise the pending block with   *)
(* its parent hash and timestamp and with no block_hash, block_number or   *)
(* new_root; in all three cases the storage was not accessed.  A finished  *)
(* call for another block id whose header the storage does not hold has    *)
(* returned BlockNotFound.                                                 *)
(***************************************************************************)
C18_GetBlockWithTxsPending ==
    rpc_pc = "done" =>
        /\ (input.kind = "Pending" /\ pending_data = None)
            => reply = Internal("Pending data not supported in this configuration")
        /\ (input.kind = "Pending" /\ pending_data = Some(None))
            => reply = BlockNotFound
        /\ (input.kind = "Pending" /\ pending_data \notin {None, Some(None)})
            => /\ reply.tag = "Ok"
               /\ reply.block.block_hash = None
               /\ reply.block.block_number = None
               /\ reply.block.new_root = None
               /\ reply.block.parent_hash
                      = pending_data.value.value.parent_hash
               /\ reply.block.timestamp = pending_data.value.value.timestamp
        /\ input.kind = "Pending" => (db_reads = 0 /\ header = NotRead)
        /\ (input.kind # "Pending" /\ header = None) => reply = BlockNotFound
        /\ (input.kind # "Pending" /\ reply.tag = "Ok")
            => /\ header \notin {NotRead, ReadError, None}
               /\ reply.block.block_hash = Some(header.value.hash)
               /\ reply.block.block_number = Some(header.value.number)

C18_Witness ==
    /\ rpc_pc = "done"
    /\ input.kind = "Pending"
    /\ reply.tag = "Ok"
    /\ reply.block.parent_hash = 1
    /\ reply.block.block_number = None
    /\ db_reads = 0

(***************************************************************************)
(* C19: no step changes head, so it is the caller's head in every cycle;   *)
(* and in a cycle that follows published events the pending block is       *)
(* accepted exactly when its parent_hash is head.0 and the pending state   *)
(* update exactly when its old_root is head.1, whatever was published      *)
(* before.                                                                 *)
(***************************************************************************)
C19_HeadNeverChanges ==
    /\ [][head' = head]_vars
    /\ [][(pc = "block_query" /\ sent_count > 0
              /\ block_reply'.kind = "Pending")
            => IF block_reply'.parent_hash = head[1]
               THEN pc' = "state_update_query"
               ELSE pc' = "done" /\ result' = Ok(None, None)]_vars
    /\ [][(pc = "state_update_query" /\ sent_count > 0
              /\ update_reply'.kind = "Pending")
            => IF update_reply'.old_root = head[2]
               THEN pc' = "download_classes"
               ELSE pc' = "done" /\ result' = Ok(None, None)]_vars
    /\ [](\A i \in 1..Len(chan) : ExtendsHead(chan[i]))

C19_Witness ==
    /\ cycle = 2
    /\ sent_count = 1
    /\ Len(chan) = 1
    /\ ExtendsHead(chan[1])
    /\ block_reply.kind = "Pending"
    /\ block_reply.parent_hash # head[1]
    /\ result = Ok(None, None)

(***************************************************************************)
(* C20: a new cycle starts, with its block query, only from the sleep of   *)
(* the cycle before it, once that sleep is over, and it is the next cycle  *)
(* in number; both sleeps (after a stale echo and after a send) are set to *)
(* poll_interval and only the passing of time shortens them.               *)
(***************************************************************************)
C20_CyclesSequential ==
    /\ [][cycle' # cycle
            => /\ cycle' = cycle + 1
               /\ pc \in {"sleep_head", "sleep_sent"}
               /\ timer = 0
               /\ pc' = "block_query"]_vars
    /\ [][(pc' = "block_query" /\ pc # "block_query")
            => /\ cycle' = cycle + 1
               /\ pc \in {"sleep_head", "sleep_sent"}
               /\ timer = 0]_vars
    /\ [][(pc' \in {"sleep_head", "sleep_sent"} /\ pc' # pc)
            => /\ timer' = poll_interval
               /\ cycle' = cycle]_vars
    /\ [][(pc \in {"sleep_head", "sleep_sent"} /\ timer' # timer)
            => timer' = timer - 1 /\ pc' = pc]_vars

C20_Witness ==
    /\ cycle = 2
    /\ pc = "block_query"
    /\ poll_interval = 1
    /\ sent_count = 1
    /\ block_reply = NoReply

C22_StepsInOrder ==
    /\ pc = "block_query"
        => /\ block_reply = NoReply
           /\ update_reply = NoReply
           /\ sent_in_cycle = <<>>
    /\ pc = "state_update_query"
        => /\ BlockConnected
           /\ update_reply = NoReply
           /\ sent_in_cycle = <<>>
    /\ pc = "download_classes"
        => /\ BlockConnected
           /\ UpdateConnected
           /\ sent_in_cycle = <<>>
    /\ pc = "send"
        => /\ BlockConnected
           /\ UpdateConnected
           /\ update_reply.state_diff \subseteq storage
           /\ sent_in_cycle = <<>>
    /\ sent_in_cycle # <<>>
        => /\ BlockConnected
           /\ UpdateConnected
           /\ update_reply.state_diff \subseteq storage
           /\ sent_in_cycle[1] = SyncEventPending(block_reply, update_reply)

C22_Witness ==
    /\ cycle = 1
    /\ pc = "sleep_sent"
    /\ sent_in_cycle # <<>>
    /\ update_reply.state_diff # {}
    /\ fetches = 1
    /\ storage = update_reply.state_diff

(***************************************************************************)
(* C23: the state update query is under way or answered, or classes are    *)
(* being resolved, only in a cycle whose block query gave a pending block  *)
(* with parent_hash = head.0.  A cycle whose block query gave a full block *)
(* (head itself or another one), a pending block on another parent, or an  *)
(* error has made no state update query and no class resolution: it is at  *)
(* its sleep or has returned, with no state update reply.                  *)
(***************************************************************************)
C23_UpdateQueryOnlyAfterConnectedBlock ==
    /\ (pc \in {"state_update_query", "download_classes", "send",
                "sleep_sent"}
          \/ update_reply # NoReply
          \/ state_update # None)
        => (block_reply.kind = "Pending"
              /\ block_reply.parent_hash = head[1])
    /\ (block_reply.kind = "Block" /\ block_reply.block_hash = head[1])
        => (pc = "sleep_head" /\ update_reply = NoReply)
    /\ (block_reply.kind = "Block" /\ block_reply.block_hash # head[1])
        => (pc = "done" /\ update_reply = NoReply)
    /\ (block_reply.kind = "Pending" /\ block_reply.parent_hash # head[1])
        => (pc = "done" /\ update_reply = NoReply)
    /\ block_reply = GatewayError
        => (pc = "done" /\ update_reply = NoReply)

C23_Witness ==
    /\ block_reply.kind = "Pending"
    /\ block_reply.parent_hash # head[1]
    /\ pc = "done"
    /\ update_reply = NoReply
    /\ cycle = 2
    /\ fetches = 1

(***************************************************************************)
(* C24: an Err returned by poll_pending carries one of four contexts, and  *)
(* each context names the phase that failed and no other: "Download        *)
(* pending block" exactly when the block query failed, "Downloading        *)
(* pending state update" exactly when the state update query failed,       *)
(* "Handling newly declared classes for pending block" exactly when class  *)
(* resolution was left with a class unresolved, "Event channel closed"     *)
(* exactly when the send found the receiver gone.                          *)
(***************************************************************************)
C24_ErrNamesItsPhase ==
    result.tag = "Err" =>
        /\ result.context
              \in {"Download pending block",
                   "Downloading pending state update",
                   "Handling newly declared classes for pending block",
                   "Event channel closed"}
        /\ result.context = "Download pending block"
              <=> block_reply = GatewayError
        /\ result.context = "Downloading pending state update"
              <=> update_reply = GatewayError
        /\ result.context = "Handling newly declared classes for pending block"
              <=> (update_reply.kind = "Pending" /\ to_download # {})
        /\ result.context = "Event channel closed"
              <=> (update_reply.kind = "Pending" /\ to_download = {}
                     /\ ~rx_open)

C24_Witness ==
    /\ result = Err("Download pending block")
    /\ block_reply = GatewayError
    /\ update_reply = NoReply
    /\ cycle = 2
    /\ sent_count = 1

(***************************************************************************)
(* C25: a cycle that went past its send has sent the event of the block    *)
(* and state update the gateway gave it in that cycle, also when the cycle *)
(* before sent an event of the very same content: the two cycles have then *)
(* sent two equal events, one each.                                        *)
(***************************************************************************)
C25_NoDeduplication ==
    /\ pc = "sleep_sent"
        => sent_in_cycle = <<SyncEventPending(block_reply, update_reply)>>
    /\ (pc = "sleep_sent"
          /\ prev_sent = <<SyncEventPending(block_reply, update_reply)>>)
        => /\ sent_in_cycle = prev_sent
           /\ sent_count >= 2

C25_Witness ==
    /\ cycle = 2
    /\ pc = "sleep_sent"
    /\ prev_sent # <<>>
    /\ sent_in_cycle = prev_sent
    /\ sent_count = 2

C27_FullRepliesUnchecked ==
    /\ \A parent \in Hashes :
          (block_reply.kind = "Block"
              /\ block_reply.block_hash # head[1]
              /\ block_reply.parent_block_hash = parent)
            => (pc = "done" /\ result = Ok(Some(block_reply), None))
    /\ \A root \in Roots, hash \in Hashes :
          (update_reply.kind = "StateUpdate"
              /\ update_reply.old_root = root
              /\ update_reply.block_hash = hash)
            => (pc = "done" /\ result = Ok(None, Some(update_reply)))

C27_Witness ==
    /\ block_reply.kind = "Block"
    /\ block_reply.block_hash # head[1]
    /\ block_reply.parent_block_hash # head[1]
    /\ result = Ok(Some(block_reply), None)
    /\ cycle = 2

(***************************************************************************)
(* C28: only the state update query is timed.  Every cycle that issues it  *)
(* gives it the whole StateUpdateTimeout, whatever time went before, and   *)
(* the timeout outcome arises only at that query, with its time used up.   *)
(* At the block query, the class resolution and the send no timer runs and *)
(* no timeout can fire: the block query ends only with an answer, the      *)
(* class resolution only with every class stored or a failed fetch, the    *)
(* send only with the event sent or the receiver gone; until then          *)
(* poll_pending has not returned.                                          *)
(***************************************************************************)
C28_OnlyStateUpdateQueryTimed ==
    /\ [](pc \in {"block_query", "download_classes", "send"}
            => /\ timer = 0
               /\ result = Running
               /\ ~ENABLED Tick
               /\ ~ENABLED StateUpdateTimedOut)
    /\ [](update_reply = Elapsed
            => /\ block_reply.kind = "Pending"
               /\ block_reply.parent_hash = head[1]
               /\ result = Ok(None, None))
    /\ [][(pc' = "state_update_query" /\ pc # "state_update_query")
            => timer' = StateUpdateTimeout]_vars
    /\ [][(update_reply' = Elapsed /\ update_reply # Elapsed)
            => (pc = "state_update_query" /\ timer = 0)]_vars
    /\ [][(pc = "block_query" /\ pc' # pc) => block_reply' # NoReply]_vars
    /\ [][(pc = "download_classes" /\ pc' # pc)
            => \/ update_reply.state_diff \subseteq storage
               \/ fetches' # fetches]_vars
    /\ [][(pc = "send" /\ pc' # pc)
            => (sent_in_cycle' # <<>> \/ ~rx_open)]_vars

C28_Witness ==
    /\ cycle = 2
    /\ prev_sent # <<>>
    /\ poll_interval = 1
    /\ update_reply = Elapsed
    /\ result = Ok(None, None)

====
